---------------------------- MODULE Spec2Model ----------------------------
(***************************************************************************)
(* The token-based LotteryFactory contract (src/unnamed/part_007, lines    *)
(* 863-1610) as a state machine.  One action per external function; a call *)
(* that reverts leaves the EVM state untouched, so every action is guarded *)
(* by "the call returns no error" and the error a call would return is a   *)
(* state function (the ...Err operators, checks in the order of the code). *)
(***************************************************************************)
EXTENDS Integers, Sequences, FiniteSets, Bags, TLC

(***************************** bounds **************************************)
MaxRooms == 2
MaxRoomsTimed == 1
MaxRound == 2
MaxTickets == 2
MaxDays == 1
MaxSeconds == 1
InitBalance == 20
ApproveAmount == 10

(************************** program constants ******************************)
PLATFORM_FEE == 10
GRACE_PERIOD == 86400
MaxValidNumber == 99

Owner == "owner"
Contract == "LotteryFactory"
Players == {"alice", "bob"}
Callers == Players \cup {Owner}
Accounts == Callers \cup {Contract}

RoomIds == 0 .. (MaxRooms - 1)
Rounds == 1 .. MaxRound
\* uint8 ticket numbers tried by callers: the default 0, a valid number, one above 99
TicketNumbers == {0, 7, 100}
\* bytes32 private keys tried by the operator
PrivateKeys == {"k1", "k2"}
\* entry fees handed to createRoom, as units * DECIMAL_CONVERSION + frac
\* with frac < DECIMAL_CONVERSION (10^12 exceeds the checker's integers)
EntryFeeArgs ==
    { [units |-> 0, frac |-> 0], [units |-> 0, frac |-> 1],
      [units |-> 5, frac |-> 0], [units |-> 5, frac |-> 1] }

VARIABLES
    now,                 \* block.timestamp
    paused,              \* Pausable._paused
    roomCount,
    activeRoomIds,
    rooms,               \* roomId -> Room
    roomTicketsByRound,  \* roomId -> roundNumber -> Ticket[]
    ticketClaimed,       \* the (roomId, roundNumber, ticketId) mapped to true
    playerTicketIds,     \* roomId -> player -> ticketIds
    playerStats,         \* player -> PlayerStats
    collectedFees,
    balanceOf,           \* USDCToken balances
    allowance,           \* USDCToken allowance of each player to the contract
    prizeClaimedEvents,  \* bag of the PrizeClaimed events emitted so far
    claiming             \* the claimPrize call whose token transfer is under way

vars == << now, paused, roomCount, activeRoomIds, rooms, roomTicketsByRound,
           ticketClaimed, playerTicketIds, playerStats, collectedFees,
           balanceOf, allowance, prizeClaimedEvents, claiming >>

(***************************** pure helpers ********************************)
\* ReentrancyGuard's status is ENTERED: a nonReentrant function is running
Entered == claiming # {}

\* keccak256(abi.encodePacked(uint8, bytes32, uint256, address, uint256)):
\* every field has a fixed width, so the packing is injective; the hash is
\* modelled as injective too.
Keccak(winningNumber, privateKey, roomId, ownerAddr, roundNumber) ==
    << winningNumber, privateKey, roomId, ownerAddr, roundNumber >>

ZeroHash == << >>

\* entryFee / DECIMAL_CONVERSION
AdjustedEntryFee(entryFee) == entryFee.units

EntryFeeIsZero(entryFee) == entryFee.units = 0 /\ entryFee.frac = 0

ZeroRoom ==
    [ id |-> 0, entryFee |-> 0, drawTime |-> 0, prizePool |-> 0,
      encryptedWinningNumber |-> ZeroHash, winningNumber |-> 0,
      revealed |-> FALSE, state |-> "OPEN", carryOverAmount |-> 0,
      roundNumber |-> 0, feesCollected |-> FALSE, revealTime |-> 0 ]

ZeroStats ==
    [ totalTickets |-> 0, totalWins |-> 0, totalClaimed |-> 0,
      roomTickets |-> [r \in RoomIds |-> 0], roomWins |-> [r \in RoomIds |-> 0] ]

RECURSIVE SumSeq(_)
SumSeq(s) == IF s = << >> THEN 0 ELSE Head(s) + SumSeq(Tail(s))

\* the tickets of the room's current round (empty for a room never created)
CurrentTickets(roomId) ==
    IF rooms[roomId].roundNumber \in Rounds
    THEN roomTicketsByRound[roomId][rooms[roomId].roundNumber]
    ELSE << >>

TotalTickets ==
    SumSeq([i \in 1 .. (MaxRooms * MaxRound) |->
              Len(roomTicketsByRound[(i - 1) \div MaxRound][((i - 1) % MaxRound) + 1])])

IsClaimed(roomId, roundNumber, ticketId) ==
    << roomId, roundNumber, ticketId >> \in ticketClaimed

\* the loops of claimPrize over the round's tickets
WinningTicketCount(roomId) ==
    Cardinality({ i \in 1 .. Len(CurrentTickets(roomId)) :
                    CurrentTickets(roomId)[i].number = rooms[roomId].winningNumber })

PlatformFee(roomId) == (rooms[roomId].prizePool * PLATFORM_FEE) \div 100

PrizeAmount(roomId) ==
    (rooms[roomId].prizePool - PlatformFee(roomId)) \div WinningTicketCount(roomId)

(*************************** initial state *********************************)
Init ==
    /\ now = 0
    /\ paused = FALSE
    /\ roomCount = 0
    /\ activeRoomIds = << >>
    /\ rooms = [r \in RoomIds |-> ZeroRoom]
    /\ roomTicketsByRound = [r \in RoomIds |-> [n \in Rounds |-> << >>]]
    /\ ticketClaimed = {}
    /\ playerTicketIds = [r \in RoomIds |-> [p \in Players |-> << >>]]
    /\ playerStats = [p \in Players |-> ZeroStats]
    /\ collectedFees = 0
    /\ balanceOf = [a \in Accounts |-> IF a \in Players THEN InitBalance ELSE 0]
    /\ allowance = [p \in Players |-> ApproveAmount]
    /\ prizeClaimedEvents = EmptyBag
    /\ claiming = {}

(************************* environment actions *****************************)
\* block.timestamp moves forward, by a second or by a day (the clock is started
\* at the creation of the first room: only differences of times are compared)
AdvanceTime(d) ==
    /\ roomCount > 0
    /\ now' = now + d
    /\ UNCHANGED << paused, roomCount, activeRoomIds, rooms, roomTicketsByRound,
                    ticketClaimed, playerTicketIds, playerStats, collectedFees,
                    balanceOf, allowance, prizeClaimedEvents, claiming >>

\* USDCToken.approve(lotteryFactory, ApproveAmount) by a player whose allowance is used up
Approve(p) ==
    /\ allowance[p] = 0
    /\ allowance' = [allowance EXCEPT ![p] = ApproveAmount]
    /\ UNCHANGED << now, paused, roomCount, activeRoomIds, rooms, roomTicketsByRound,
                    ticketClaimed, playerTicketIds, playerStats, collectedFees,
                    balanceOf, prizeClaimedEvents, claiming >>

(****************************** createRoom *********************************)
CreateRoomErr(caller, entryFee) ==
    IF caller # Owner THEN "OwnableUnauthorizedAccount"
    ELSE IF paused THEN "EnforcedPause"
    ELSE IF EntryFeeIsZero(entryFee) THEN "InvalidAmount"
    ELSE IF AdjustedEntryFee(entryFee) = 0 THEN "InvalidAmount"
    ELSE "ok"

CreateRoom(caller, entryFee, drawTime, encryptedWinningNumber) ==
    /\ CreateRoomErr(caller, entryFee) = "ok"
    /\ rooms' = [rooms EXCEPT ![roomCount] =
                   [ id |-> roomCount, entryFee |-> AdjustedEntryFee(entryFee),
                     drawTime |-> drawTime, prizePool |-> 0,
                     encryptedWinningNumber |-> encryptedWinningNumber,
                     winningNumber |-> @.winningNumber,
                     revealed |-> FALSE, state |-> "OPEN", carryOverAmount |-> 0,
                     roundNumber |-> 1, feesCollected |-> FALSE, revealTime |-> 0 ]]
    /\ activeRoomIds' = Append(activeRoomIds, roomCount)
    /\ roomCount' = roomCount + 1
    /\ UNCHANGED << now, paused, roomTicketsByRound, ticketClaimed, playerTicketIds,
                    playerStats, collectedFees, balanceOf, allowance,
                    prizeClaimedEvents, claiming >>

(******************************* buyTicket *********************************)
\* buyTicket without the check of the allowance
BuyTicketErrNoAllowanceCheck(caller, roomId, number) ==
    IF paused THEN "EnforcedPause"
    ELSE IF ~(roomId < roomCount) THEN "Invalid room ID"
    ELSE IF now >= rooms[roomId].drawTime THEN "BuyTicketAfterDrawTime"
    ELSE IF number > MaxValidNumber THEN "InvalidNumber"
    ELSE IF balanceOf[caller] < rooms[roomId].entryFee THEN "ERC20InsufficientBalance"
    ELSE "ok"

\* buyTicket without the check of the number
BuyTicketErrNoNumberCheck(caller, roomId, number) ==
    IF paused THEN "EnforcedPause"
    ELSE IF ~(roomId < roomCount) THEN "Invalid room ID"
    ELSE IF now >= rooms[roomId].drawTime THEN "BuyTicketAfterDrawTime"
    ELSE IF allowance[caller] < rooms[roomId].entryFee THEN "InsufficientAllowance"
    ELSE IF balanceOf[caller] < rooms[roomId].entryFee THEN "ERC20InsufficientBalance"
    ELSE "ok"

\* buyTicket taking 100 for a valid number
BuyTicketErrOffByOne(caller, roomId, number) ==
    IF paused THEN "EnforcedPause"
    ELSE IF ~(roomId < roomCount) THEN "Invalid room ID"
    ELSE IF now >= rooms[roomId].drawTime THEN "BuyTicketAfterDrawTime"
    ELSE IF number > MaxValidNumber + 1 THEN "InvalidNumber"
    ELSE IF allowance[caller] < rooms[roomId].entryFee THEN "InsufficientAllowance"
    ELSE IF balanceOf[caller] < rooms[roomId].entryFee THEN "ERC20InsufficientBalance"
    ELSE "ok"

\* buyTicket without the pause modifier
BuyTicketErrNoPauseCheck(caller, roomId, number) ==
    IF ~(roomId < roomCount) THEN "Invalid room ID"
    ELSE IF now >= rooms[roomId].drawTime THEN "BuyTicketAfterDrawTime"
    ELSE IF number > MaxValidNumber THEN "InvalidNumber"
    ELSE IF allowance[caller] < rooms[roomId].entryFee THEN "InsufficientAllowance"
    ELSE IF balanceOf[caller] < rooms[roomId].entryFee THEN "ERC20InsufficientBalance"
    ELSE "ok"

\* buyTicket trusting the stored state instead of comparing the time
BuyTicketErrStoredState(caller, roomId, number) ==
    IF paused THEN "EnforcedPause"
    ELSE IF ~(roomId < roomCount) THEN "Invalid room ID"
    ELSE IF rooms[roomId].state # "OPEN" THEN "InvalidState"
    ELSE IF number > MaxValidNumber THEN "InvalidNumber"
    ELSE IF allowance[caller] < rooms[roomId].entryFee THEN "InsufficientAllowance"
    ELSE IF balanceOf[caller] < rooms[roomId].entryFee THEN "ERC20InsufficientBalance"
    ELSE "ok"

BuyTicketErr(caller, roomId, number) ==
    IF Entered THEN "ReentrancyGuardReentrantCall"
    ELSE IF paused THEN "EnforcedPause"
    ELSE IF ~(roomId < roomCount) THEN "Invalid room ID"
    \* the write of PENDING_REVEAL before this revert is rolled back with it
    ELSE IF now >= rooms[roomId].drawTime THEN "BuyTicketAfterDrawTime"
    ELSE IF number > MaxValidNumber THEN "InvalidNumber"
    ELSE IF allowance[caller] < rooms[roomId].entryFee THEN "InsufficientAllowance"
    ELSE IF balanceOf[caller] < rooms[roomId].entryFee THEN "ERC20InsufficientBalance"
    ELSE "ok"

\* the ticket numbered by a counter of all tickets instead of the round's length
NewTicketGlobalId(caller, roomId, number) ==
    [ id |-> TotalTickets, roomId |-> roomId, player |-> caller,
      number |-> number, roundNumber |-> rooms[roomId].roundNumber, win |-> FALSE ]

NewTicket(caller, roomId, number) ==
    [ id |-> Len(CurrentTickets(roomId)), roomId |-> roomId, player |-> caller,
      number |-> number, roundNumber |-> rooms[roomId].roundNumber, win |-> FALSE ]

BuyTicketPool(roomId) == rooms[roomId].prizePool + rooms[roomId].entryFee

BuyTicket(caller, roomId, number) ==
    /\ BuyTicketErr(caller, roomId, number) = "ok"
    /\ LET room == rooms[roomId]
           t == NewTicket(caller, roomId, number)
       IN /\ balanceOf' = [balanceOf EXCEPT ![caller] = @ - room.entryFee,
                                            ![Contract] = @ + room.entryFee]
          /\ allowance' = [allowance EXCEPT ![caller] = @ - room.entryFee]
          /\ roomTicketsByRound' =
                [roomTicketsByRound EXCEPT ![roomId][room.roundNumber] = Append(@, t)]
          /\ playerTicketIds' = [playerTicketIds EXCEPT ![roomId][caller] = Append(@, t.id)]
          /\ ticketClaimed' = ticketClaimed \ {<< roomId, room.roundNumber, t.id >>}
          /\ rooms' = [rooms EXCEPT ![roomId].prizePool = BuyTicketPool(roomId)]
          /\ playerStats' = [playerStats EXCEPT ![caller].totalTickets = @ + 1,
                                                ![caller].roomTickets[roomId] = @ + 1]
    /\ UNCHANGED << now, paused, roomCount, activeRoomIds, collectedFees,
                    prizeClaimedEvents, claiming >>

\* the room's stored state once a buyTicket call has returned: a call that
\* reverts rolls back the PENDING_REVEAL written before the revert, and a call
\* that succeeds has not passed through that write
BuyTicketStoredStateAfter(caller, roomId, number) ==
    IF BuyTicketErr(caller, roomId, number) = "BuyTicketAfterDrawTime"
    THEN rooms[roomId].state
    ELSE rooms[roomId].state

(*************************** revealWinningNumber ***************************)
\* verification that leaves the round number out of the hash
VerifyWinningNumberAnyRound(roomId, privateKey, winningNumber) ==
    /\ \E rd \in 1 .. (MaxRound + 1) :
          Keccak(winningNumber, privateKey, roomId, Owner, rd)
             = rooms[roomId].encryptedWinningNumber
    /\ winningNumber <= MaxValidNumber

VerifyWinningNumber(roomId, privateKey, winningNumber) ==
    /\ Keccak(winningNumber, privateKey, roomId, Owner, rooms[roomId].roundNumber)
          = rooms[roomId].encryptedWinningNumber
    /\ winningNumber <= MaxValidNumber

\* the reveal guard placed after the verification
RevealWinningNumberErrVerifyFirst(caller, roomId, privateKey, winningNumber) ==
    IF caller # Owner THEN "OwnableUnauthorizedAccount"
    ELSE IF paused THEN "EnforcedPause"
    ELSE IF ~(roomId < roomCount) THEN "Invalid room ID"
    ELSE IF ~(/\ Keccak(winningNumber, privateKey, roomId, Owner,
                        rooms[roomId].roundNumber)
                   = rooms[roomId].encryptedWinningNumber
              /\ winningNumber <= MaxValidNumber)
         THEN "InvalidVerification"
    ELSE IF rooms[roomId].revealed THEN "AlreadyRevealed"
    ELSE "ok"

RevealWinningNumberErr(caller, roomId, privateKey, winningNumber) ==
    IF caller # Owner THEN "OwnableUnauthorizedAccount"
    ELSE IF paused THEN "EnforcedPause"
    ELSE IF ~(roomId < roomCount) THEN "Invalid room ID"
    \* the check of room.state against PENDING_REVEAL is commented out in the code
    ELSE IF rooms[roomId].revealed THEN "AlreadyRevealed"
    ELSE IF ~VerifyWinningNumber(roomId, privateKey, winningNumber)
         THEN "InvalidVerification"
    ELSE "ok"

\* the loop over the round's tickets: win flags
MarkWinners(tickets, winningNumber) ==
    [i \in 1 .. Len(tickets) |->
        IF tickets[i].number = winningNumber
        THEN [tickets[i] EXCEPT !.win = TRUE]
        ELSE tickets[i]]

\* every matching ticket of the round counted for p, whoever owns it
WinsOfAnyPlayer(tickets, winningNumber, p) ==
    Cardinality({ i \in 1 .. Len(tickets) : tickets[i].number = winningNumber })

\* the loop over the round's tickets: how many of them are p's and match
WinsOf(tickets, winningNumber, p) ==
    Cardinality({ i \in 1 .. Len(tickets) :
                    tickets[i].number = winningNumber /\ tickets[i].player = p })

\* the reveal that leaves the room in the state it was in
RevealWinningNumberKeepsState(caller, roomId, privateKey, winningNumber) ==
    /\ RevealWinningNumberErr(caller, roomId, privateKey, winningNumber) = "ok"
    /\ LET room == rooms[roomId]
           tickets == roomTicketsByRound[roomId][room.roundNumber]
       IN /\ rooms' = [rooms EXCEPT ![roomId].winningNumber = winningNumber,
                                    ![roomId].revealed = TRUE,
                                    ![roomId].revealTime = now]
          /\ roomTicketsByRound' =
                [roomTicketsByRound EXCEPT ![roomId][room.roundNumber] =
                    MarkWinners(tickets, winningNumber)]
          /\ playerStats' =
                [p \in Players |->
                    [playerStats[p] EXCEPT
                        !.totalWins = @ + WinsOf(tickets, winningNumber, p),
                        !.roomWins[roomId] = @ + WinsOf(tickets, winningNumber, p)]]
    /\ UNCHANGED << now, paused, roomCount, activeRoomIds, ticketClaimed,
                    playerTicketIds, collectedFees, balanceOf, allowance,
                    prizeClaimedEvents, claiming >>

RevealWinningNumber(caller, roomId, privateKey, winningNumber) ==
    /\ RevealWinningNumberErr(caller, roomId, privateKey, winningNumber) = "ok"
    /\ LET room == rooms[roomId]
           tickets == roomTicketsByRound[roomId][room.roundNumber]
       IN /\ rooms' = [rooms EXCEPT ![roomId].winningNumber = winningNumber,
                                    ![roomId].revealed = TRUE,
                                    ![roomId].state = "REVEALED",
                                    ![roomId].revealTime = now]
          /\ roomTicketsByRound' =
                [roomTicketsByRound EXCEPT ![roomId][room.roundNumber] =
                    MarkWinners(tickets, winningNumber)]
          /\ playerStats' =
                [p \in Players |->
                    [playerStats[p] EXCEPT
                        !.totalWins = @ + WinsOf(tickets, winningNumber, p),
                        !.roomWins[roomId] = @ + WinsOf(tickets, winningNumber, p)]]
    /\ UNCHANGED << now, paused, roomCount, activeRoomIds, ticketClaimed,
                    playerTicketIds, collectedFees, balanceOf, allowance,
                    prizeClaimedEvents, claiming >>

(******************************* claimPrize ********************************)
\* claimPrize without the check of the claim record
ClaimPrizeErrNoClaimCheck(caller, roomId, ticketId) ==
    IF paused THEN "EnforcedPause"
    ELSE IF ~(roomId < roomCount) THEN "Invalid room ID"
    ELSE IF ticketId >= Len(CurrentTickets(roomId)) THEN "InvalidTicket"
    ELSE IF CurrentTickets(roomId)[ticketId + 1].player # caller THEN "InvalidOwner"
    ELSE IF CurrentTickets(roomId)[ticketId + 1].number # rooms[roomId].winningNumber
         THEN "InvalidTicket"
    ELSE IF WinningTicketCount(roomId) > 0 /\ balanceOf[Contract] < PrizeAmount(roomId)
         THEN "ERC20InsufficientBalance"
    ELSE "ok"

\* claimPrize looking the ticket up in the first round's ledger
ClaimPrizeErrFirstRoundLedger(caller, roomId, ticketId) ==
    IF paused THEN "EnforcedPause"
    ELSE IF ~(roomId < roomCount) THEN "Invalid room ID"
    ELSE IF ticketId >= Len(roomTicketsByRound[roomId][1]) THEN "InvalidTicket"
    ELSE IF roomTicketsByRound[roomId][1][ticketId + 1].player # caller THEN "InvalidOwner"
    ELSE IF roomTicketsByRound[roomId][1][ticketId + 1].number # rooms[roomId].winningNumber
         THEN "InvalidTicket"
    ELSE IF IsClaimed(roomId, rooms[roomId].roundNumber, ticketId) THEN "InvalidTicket"
    ELSE IF WinningTicketCount(roomId) > 0 /\ balanceOf[Contract] < PrizeAmount(roomId)
         THEN "ERC20InsufficientBalance"
    ELSE "ok"

ClaimPrizeErr(caller, roomId, ticketId) ==
    IF Entered THEN "ReentrancyGuardReentrantCall"
    ELSE IF paused THEN "EnforcedPause"
    ELSE IF ~(roomId < roomCount) THEN "Invalid room ID"
    ELSE IF ticketId >= Len(CurrentTickets(roomId)) THEN "InvalidTicket"
    ELSE IF CurrentTickets(roomId)[ticketId + 1].roundNumber # rooms[roomId].roundNumber
         THEN "InvalidTicket"
    ELSE IF CurrentTickets(roomId)[ticketId + 1].player # caller THEN "InvalidOwner"
    ELSE IF CurrentTickets(roomId)[ticketId + 1].number # rooms[roomId].winningNumber
         THEN "InvalidTicket"
    ELSE IF IsClaimed(roomId, rooms[roomId].roundNumber, ticketId) THEN "InvalidTicket"
    ELSE IF WinningTicketCount(roomId) > 0 /\ balanceOf[Contract] < PrizeAmount(roomId)
         THEN "ERC20InsufficientBalance"
    ELSE "ok"

\* the fee booked by every claim, not once per round
ClaimCollectedFeesEveryClaim(roomId) ==
    IF WinningTicketCount(roomId) > 0
    THEN collectedFees + PlatformFee(roomId)
    ELSE collectedFees

\* collectedFees after the fee booking of a claim on roomId
ClaimCollectedFees(roomId) ==
    IF WinningTicketCount(roomId) > 0 /\ ~rooms[roomId].feesCollected
    THEN collectedFees + PlatformFee(roomId)
    ELSE collectedFees

\* the second loop of claimPrize, run with the claim records as they are after
\* the claim: no ticket of the round that matches the winning number is unclaimed
AllWinningTicketsClaimed(roomId, claimed) ==
    \A i \in 1 .. Len(CurrentTickets(roomId)) :
        CurrentTickets(roomId)[i].number = rooms[roomId].winningNumber
            => << roomId, rooms[roomId].roundNumber, i - 1 >> \in claimed

\* the room closed and its pool zeroed by every claim
ClaimRoomEveryClaim(roomId, claimed) ==
    [rooms[roomId] EXCEPT !.feesCollected = TRUE, !.prizePool = 0, !.state = "CLOSED"]

\* the room after the claim: fee flag, and the close of the round
ClaimRoom(roomId, claimed) ==
    LET r1 == IF WinningTicketCount(roomId) > 0
              THEN [rooms[roomId] EXCEPT !.feesCollected = TRUE]
              ELSE rooms[roomId]
    IN IF AllWinningTicketsClaimed(roomId, claimed)
       THEN IF WinningTicketCount(roomId) = 0
            THEN [r1 EXCEPT !.state = "CLOSED"]
            ELSE [r1 EXCEPT !.prizePool = 0, !.state = "CLOSED"]
       ELSE r1

\* claimPrize going on when the token transfer fails: the claim is recorded and
\* counted, nothing is paid
ClaimPrizeIgnoringTransfer(caller, roomId, ticketId) ==
    /\ ClaimPrizeErr(caller, roomId, ticketId) \in {"ok", "ERC20InsufficientBalance"}
    /\ LET room == rooms[roomId]
           claimed == ticketClaimed \cup {<< roomId, room.roundNumber, ticketId >>}
           pays == /\ WinningTicketCount(roomId) > 0
                   /\ ClaimPrizeErr(caller, roomId, ticketId) = "ok"
           amount == IF pays THEN PrizeAmount(roomId) ELSE 0
       IN /\ ticketClaimed' = claimed
          /\ playerStats' = [playerStats EXCEPT ![caller].totalClaimed = @ + 1]
          /\ collectedFees' = ClaimCollectedFees(roomId)
          /\ balanceOf' = [balanceOf EXCEPT ![Contract] = @ - amount,
                                            ![caller] = @ + amount]
          /\ prizeClaimedEvents' =
                IF pays
                THEN prizeClaimedEvents (+)
                     SetToBag({[ roomId |-> roomId, winner |-> caller, amount |-> amount,
                                 ticketId |-> ticketId, roundNumber |-> room.roundNumber ]})
                ELSE prizeClaimedEvents
          /\ rooms' = [rooms EXCEPT ![roomId] = ClaimRoom(roomId, claimed)]
    /\ UNCHANGED << now, paused, roomCount, activeRoomIds, roomTicketsByRound,
                    playerTicketIds, allowance, claiming >>

ClaimPrize(caller, roomId, ticketId) ==
    /\ ClaimPrizeErr(caller, roomId, ticketId) = "ok"
    /\ LET room == rooms[roomId]
           claimed == ticketClaimed \cup {<< roomId, room.roundNumber, ticketId >>}
           pays == WinningTicketCount(roomId) > 0
           amount == IF pays THEN PrizeAmount(roomId) ELSE 0
       IN /\ ticketClaimed' = claimed
          /\ playerStats' = [playerStats EXCEPT ![caller].totalClaimed = @ + 1]
          /\ collectedFees' = ClaimCollectedFees(roomId)
          /\ balanceOf' = [balanceOf EXCEPT ![Contract] = @ - amount,
                                            ![caller] = @ + amount]
          /\ prizeClaimedEvents' =
                IF pays
                THEN prizeClaimedEvents (+)
                     SetToBag({[ roomId |-> roomId, winner |-> caller, amount |-> amount,
                                 ticketId |-> ticketId, roundNumber |-> room.roundNumber ]})
                ELSE prizeClaimedEvents
          /\ rooms' = [rooms EXCEPT ![roomId] = ClaimRoom(roomId, claimed)]
    /\ UNCHANGED << now, paused, roomCount, activeRoomIds, roomTicketsByRound,
                    playerTicketIds, allowance, claiming >>

(* claimPrize taken in two steps around USDCToken.transfer, for a token whose
   transfer calls out to the recipient after it has moved the balance: what
   the contract can be asked to do in between is a re-entrant call. *)
\* the in-flight call, with what a revert of the transaction restores
InFlight(caller, roomId, ticketId, amount) ==
    [ caller |-> caller, roomId |-> roomId, ticketId |-> ticketId, amount |-> amount,
      roundNumber |-> rooms[roomId].roundNumber,
      saved |-> [ ticketClaimed |-> ticketClaimed, playerStats |-> playerStats,
                  collectedFees |-> collectedFees, rooms |-> rooms,
                  balanceOf |-> balanceOf, allowance |-> allowance ] ]

\* claimPrize reaching the transfer with the claim record not yet written
ClaimPrizeBeginUnrecorded(caller, roomId, ticketId) ==
    /\ ClaimPrizeErr(caller, roomId, ticketId) = "ok"
    /\ LET amount == PrizeAmount(roomId)
       IN /\ playerStats' = [playerStats EXCEPT ![caller].totalClaimed = @ + 1]
          /\ collectedFees' = ClaimCollectedFees(roomId)
          /\ rooms' = [rooms EXCEPT ![roomId].feesCollected = TRUE]
          /\ balanceOf' = [balanceOf EXCEPT ![Contract] = @ - amount,
                                            ![caller] = @ + amount]
          /\ claiming' = {InFlight(caller, roomId, ticketId, amount)}
    /\ UNCHANGED << now, paused, roomCount, activeRoomIds, roomTicketsByRound,
                    ticketClaimed, playerTicketIds, allowance, prizeClaimedEvents >>

\* claimPrize from its entry to the recipient's hook inside USDCToken.transfer:
\* the checks, the claim record, the statistics and the fee booking, then the
\* balance moved by the token.  A ticket that passes the checks matches the
\* winning number, so winningTicketCount > 0 and the transfer is made.
ClaimPrizeBegin(caller, roomId, ticketId) ==
    /\ ClaimPrizeErr(caller, roomId, ticketId) = "ok"
    /\ LET amount == PrizeAmount(roomId)
       IN /\ ticketClaimed' =
                ticketClaimed \cup {<< roomId, rooms[roomId].roundNumber, ticketId >>}
          /\ playerStats' = [playerStats EXCEPT ![caller].totalClaimed = @ + 1]
          /\ collectedFees' = ClaimCollectedFees(roomId)
          /\ rooms' = [rooms EXCEPT ![roomId].feesCollected = TRUE]
          /\ balanceOf' = [balanceOf EXCEPT ![Contract] = @ - amount,
                                            ![caller] = @ + amount]
          /\ claiming' = {InFlight(caller, roomId, ticketId, amount)}
    /\ UNCHANGED << now, paused, roomCount, activeRoomIds, roomTicketsByRound,
                    playerTicketIds, allowance, prizeClaimedEvents >>

\* the transfer has returned true: the event, the second loop, the close
ClaimPrizeEnd ==
    /\ Entered
    /\ LET c == CHOOSE x \in claiming : TRUE
       IN /\ prizeClaimedEvents' =
                prizeClaimedEvents (+)
                SetToBag({[ roomId |-> c.roomId, winner |-> c.caller,
                            amount |-> c.amount, ticketId |-> c.ticketId,
                            roundNumber |-> rooms[c.roomId].roundNumber ]})
          /\ rooms' = [rooms EXCEPT ![c.roomId] = ClaimRoom(c.roomId, ticketClaimed)]
    /\ claiming' = {}
    /\ UNCHANGED << now, paused, roomCount, activeRoomIds, roomTicketsByRound,
                    ticketClaimed, playerTicketIds, playerStats, collectedFees,
                    balanceOf, allowance >>

\* the recipient's hook reverts: the whole transaction is rolled back
ClaimPrizeAbort ==
    /\ Entered
    /\ LET c == CHOOSE x \in claiming : TRUE
       IN /\ ticketClaimed' = c.saved.ticketClaimed
          /\ playerStats' = c.saved.playerStats
          /\ collectedFees' = c.saved.collectedFees
          /\ rooms' = c.saved.rooms
          /\ balanceOf' = c.saved.balanceOf
          /\ allowance' = c.saved.allowance
    /\ claiming' = {}
    /\ UNCHANGED << now, paused, roomCount, activeRoomIds, roomTicketsByRound,
                    playerTicketIds, prizeClaimedEvents >>

(******************************** resetRoom ********************************)
\* resetRoom without the check of the room's state
ResetRoomErrAnyState(caller, roomId) ==
    IF caller # Owner THEN "OwnableUnauthorizedAccount"
    ELSE IF paused THEN "EnforcedPause"
    ELSE IF ~(roomId < roomCount) THEN "Invalid room ID"
    ELSE "ok"

ResetRoomErr(caller, roomId) ==
    IF caller # Owner THEN "OwnableUnauthorizedAccount"
    ELSE IF paused THEN "EnforcedPause"
    ELSE IF ~(roomId < roomCount) THEN "Invalid room ID"
    ELSE IF rooms[roomId].state # "CLOSED" /\ rooms[roomId].state # "REVEALED"
         THEN "RoomNotResettable"
    ELSE "ok"

\* resetRoom that leaves the round marked as revealed
ResetRoomKeepsRevealed(caller, roomId, drawTime, encryptedWinningNumber) ==
    /\ ResetRoomErr(caller, roomId) = "ok"
    /\ rooms' = [rooms EXCEPT ![roomId].drawTime = drawTime,
                              ![roomId].encryptedWinningNumber = encryptedWinningNumber,
                              ![roomId].state = "OPEN",
                              ![roomId].roundNumber = @ + 1,
                              ![roomId].feesCollected = FALSE,
                              ![roomId].revealTime = 0]
    /\ UNCHANGED << now, paused, roomCount, activeRoomIds, roomTicketsByRound,
                    ticketClaimed, playerTicketIds, playerStats, collectedFees,
                    balanceOf, allowance, prizeClaimedEvents, claiming >>

\* resetRoom that empties the pool
ResetRoomZeroesPool(caller, roomId, drawTime, encryptedWinningNumber) ==
    /\ ResetRoomErr(caller, roomId) = "ok"
    /\ rooms' = [rooms EXCEPT ![roomId].drawTime = drawTime,
                              ![roomId].encryptedWinningNumber = encryptedWinningNumber,
                              ![roomId].revealed = FALSE,
                              ![roomId].state = "OPEN",
                              ![roomId].winningNumber = 0,
                              ![roomId].roundNumber = @ + 1,
                              ![roomId].feesCollected = FALSE,
                              ![roomId].revealTime = 0,
                              ![roomId].prizePool = 0]
    /\ UNCHANGED << now, paused, roomCount, activeRoomIds, roomTicketsByRound,
                    ticketClaimed, playerTicketIds, playerStats, collectedFees,
                    balanceOf, allowance, prizeClaimedEvents, claiming >>

IsActive(roomId) == \E i \in 1 .. Len(activeRoomIds) : activeRoomIds[i] = roomId

ResetRoom(caller, roomId, drawTime, encryptedWinningNumber) ==
    /\ ResetRoomErr(caller, roomId) = "ok"
    /\ rooms' = [rooms EXCEPT ![roomId].drawTime = drawTime,
                              ![roomId].encryptedWinningNumber = encryptedWinningNumber,
                              ![roomId].revealed = FALSE,
                              ![roomId].state = "OPEN",
                              ![roomId].winningNumber = 0,
                              ![roomId].roundNumber = @ + 1,
                              ![roomId].feesCollected = FALSE,
                              ![roomId].revealTime = 0]
    /\ activeRoomIds' = IF IsActive(roomId) THEN activeRoomIds
                        ELSE Append(activeRoomIds, roomId)
    /\ UNCHANGED << now, paused, roomCount, roomTicketsByRound, ticketClaimed,
                    playerTicketIds, playerStats, collectedFees, balanceOf, allowance,
                    prizeClaimedEvents, claiming >>

(****************************** forceCloseRoom *****************************)
\* forceCloseRoom without the wait for the grace period
ForceCloseRoomErrNoGrace(caller, roomId) ==
    IF caller # Owner THEN "OwnableUnauthorizedAccount"
    ELSE IF ~(roomId < roomCount) THEN "Invalid room ID"
    ELSE IF rooms[roomId].state # "REVEALED" THEN "InvalidState"
    ELSE "ok"

ForceCloseRoomErr(caller, roomId) ==
    IF caller # Owner THEN "OwnableUnauthorizedAccount"
    ELSE IF Entered THEN "ReentrancyGuardReentrantCall"
    ELSE IF ~(roomId < roomCount) THEN "Invalid room ID"
    ELSE IF rooms[roomId].state # "REVEALED" THEN "InvalidState"
    ELSE IF now < rooms[roomId].revealTime + GRACE_PERIOD THEN "GracePeriodNotPassed"
    ELSE "ok"

ForceCloseRoom(caller, roomId) ==
    /\ ForceCloseRoomErr(caller, roomId) = "ok"
    /\ rooms' = [rooms EXCEPT ![roomId].state = "CLOSED"]
    /\ UNCHANGED << now, paused, roomCount, activeRoomIds, roomTicketsByRound,
                    ticketClaimed, playerTicketIds, playerStats, collectedFees,
                    balanceOf, allowance, prizeClaimedEvents, claiming >>

(********************* emergencyPause / resumeOperations *******************)
EmergencyPauseErr(caller) ==
    IF caller # Owner THEN "OwnableUnauthorizedAccount"
    ELSE IF paused THEN "EnforcedPause"
    ELSE "ok"

EmergencyPause(caller) ==
    /\ EmergencyPauseErr(caller) = "ok"
    /\ paused' = TRUE
    /\ UNCHANGED << now, roomCount, activeRoomIds, rooms, roomTicketsByRound,
                    ticketClaimed, playerTicketIds, playerStats, collectedFees,
                    balanceOf, allowance, prizeClaimedEvents, claiming >>

ResumeOperationsErr(caller) ==
    IF caller # Owner THEN "OwnableUnauthorizedAccount"
    ELSE IF ~paused THEN "ExpectedPause"
    ELSE "ok"

ResumeOperations(caller) ==
    /\ ResumeOperationsErr(caller) = "ok"
    /\ paused' = FALSE
    /\ UNCHANGED << now, roomCount, activeRoomIds, rooms, roomTicketsByRound,
                    ticketClaimed, playerTicketIds, playerStats, collectedFees,
                    balanceOf, allowance, prizeClaimedEvents, claiming >>

(******************************* withdrawFees ******************************)
WithdrawAmount(amount) == IF amount = 0 THEN collectedFees ELSE amount

\* withdrawFees without the limit of collectedFees
WithdrawFeesErrNoLimit(caller, amount) ==
    IF caller # Owner THEN "OwnableUnauthorizedAccount"
    ELSE IF balanceOf[Contract] < WithdrawAmount(amount) THEN "ERC20InsufficientBalance"
    ELSE "ok"

WithdrawFeesErr(caller, amount) ==
    IF caller # Owner THEN "OwnableUnauthorizedAccount"
    ELSE IF Entered THEN "ReentrancyGuardReentrantCall"
    ELSE IF WithdrawAmount(amount) > collectedFees THEN "InvalidAmount"
    ELSE IF balanceOf[Contract] < WithdrawAmount(amount) THEN "ERC20InsufficientBalance"
    ELSE "ok"

WithdrawFees(caller, amount) ==
    /\ WithdrawFeesErr(caller, amount) = "ok"
    /\ collectedFees' = collectedFees - WithdrawAmount(amount)
    /\ balanceOf' = [balanceOf EXCEPT ![Contract] = @ - WithdrawAmount(amount),
                                      ![Owner] = @ + WithdrawAmount(amount)]
    /\ UNCHANGED << now, paused, roomCount, activeRoomIds, rooms, roomTicketsByRound,
                    ticketClaimed, playerTicketIds, playerStats, allowance,
                    prizeClaimedEvents, claiming >>

(************************* emergencyWithdrawTokens *************************)
\* emergencyWithdrawTokens without the check of the amount against the balance
EmergencyWithdrawTokensErrNoLimit(caller, amount) ==
    IF caller # Owner THEN "OwnableUnauthorizedAccount"
    ELSE "ok"

EmergencyWithdrawTokensErr(caller, amount) ==
    IF caller # Owner THEN "OwnableUnauthorizedAccount"
    ELSE IF amount > balanceOf[Contract] THEN "InvalidAmount"
    ELSE "ok"

EmergencyWithdrawTokens(caller, amount) ==
    /\ EmergencyWithdrawTokensErr(caller, amount) = "ok"
    /\ balanceOf' = [balanceOf EXCEPT ![Contract] = @ - amount,
                                      ![Owner] = @ + amount]
    /\ UNCHANGED << now, paused, roomCount, activeRoomIds, rooms, roomTicketsByRound,
                    ticketClaimed, playerTicketIds, playerStats, collectedFees,
                    allowance, prizeClaimedEvents, claiming >>

(****************************** view functions *****************************)
GetWinningNumberErr(roomId) ==
    IF ~(roomId < roomCount) THEN "Invalid room ID"
    ELSE IF ~rooms[roomId].revealed THEN "InvalidState"
    ELSE "ok"

GetPrizePoolErr(roomId) ==
    IF ~(roomId < roomCount) THEN "Invalid room ID"
    ELSE "ok"

\* a Ticket slot of a fresh memory array
ZeroTicket ==
    [ id |-> 0, roomId |-> 0, player |-> "none", number |-> 0, roundNumber |-> 0,
      win |-> FALSE ]

\* the inner loop of getTicketsForAddress: from round down to 1, the first
\* round whose ledger holds a ticket of the player at index ticketId
RECURSIVE FindTicket(_, _, _, _)
FindTicket(roomId, player, ticketId, round) ==
    IF round = 0 THEN ZeroTicket
    ELSE IF /\ ticketId < Len(roomTicketsByRound[roomId][round])
            /\ roomTicketsByRound[roomId][round][ticketId + 1].player = player
         THEN roomTicketsByRound[roomId][round][ticketId + 1]
         ELSE FindTicket(roomId, player, ticketId, round - 1)

GetTicketsForAddress(roomId, player) ==
    [i \in 1 .. Len(playerTicketIds[roomId][player]) |->
        FindTicket(roomId, player, playerTicketIds[roomId][player][i],
                   rooms[roomId].roundNumber)]

(***************************** specification *******************************)
\* amounts handed to withdrawFees: everything, one unit, more than was ever booked
WithdrawAmounts == {0, 1, 1000}
\* amounts handed to emergencyWithdrawTokens
EmergencyAmounts == {1, 5, 1000}

\* draw times handed to createRoom and resetRoom: a second from now
DrawTimes == {now + 1}

\* commitments handed to createRoom and resetRoom for the round about to start:
\* to 0 and to 7, under the private key k1
Commitments(roomId, roundNumber) ==
    { Keccak(0, "k1", roomId, Owner, roundNumber),
      Keccak(7, "k1", roomId, Owner, roundNumber) }

\* the steps that are the same in every specification
Settle ==
    \/ \E p \in Players : Approve(p)
    \/ \E p \in Players, r \in RoomIds, n \in TicketNumbers :
          TotalTickets < MaxTickets /\ BuyTicket(p, r, n)
    \/ \E c \in Callers, r \in RoomIds, k \in PrivateKeys, n \in TicketNumbers :
          RevealWinningNumber(c, r, k, n)
    \/ \E p \in Callers, r \in RoomIds, t \in 0 .. MaxTickets : ClaimPrize(p, r, t)
    \/ \E c \in Callers, r \in RoomIds, d \in DrawTimes :
          \E h \in Commitments(r, rooms[r].roundNumber + 1) :
             rooms[r].roundNumber < MaxRound /\ ResetRoom(c, r, d, h)

Tick ==
    \E d \in {1, GRACE_PERIOD} :
        /\ now + d <= MaxDays * GRACE_PERIOD + MaxSeconds
        /\ (now + d) % GRACE_PERIOD <= MaxSeconds
        /\ AdvanceTime(d)

Pause ==
    \/ \E c \in Callers : EmergencyPause(c)
    \/ \E c \in Callers : ResumeOperations(c)

\* one room, with the clock running
Next ==
    \/ Tick
    \/ \E c \in Callers, f \in EntryFeeArgs, d \in DrawTimes,
          h \in Commitments(roomCount, 1) :
             roomCount < MaxRoomsTimed /\ CreateRoom(c, f, d, h)
    \/ Settle
    \/ \E c \in Callers, r \in RoomIds : ForceCloseRoom(c, r)
    \/ Pause

Spec == Init /\ [][Next]_vars

\* several rooms, all within the first second
NextRooms ==
    \/ \E c \in Callers, f \in EntryFeeArgs, d \in DrawTimes,
          h \in Commitments(roomCount, 1) :
             roomCount < MaxRooms /\ CreateRoom(c, f, d, h)
    \/ Settle

SpecRooms == Init /\ [][NextRooms]_vars

\* one room within the first second, with the operator's withdrawals
NextAdmin ==
    \/ \E c \in Callers, f \in EntryFeeArgs, d \in DrawTimes,
          h \in Commitments(roomCount, 1) :
             roomCount < MaxRoomsTimed /\ CreateRoom(c, f, d, h)
    \/ Settle
    \/ \E c \in Callers, a \in WithdrawAmounts : WithdrawFees(c, a)
    \/ \E c \in Callers, a \in EmergencyAmounts : EmergencyWithdrawTokens(c, a)

SpecAdmin == Init /\ [][NextAdmin]_vars

\* one room with an entry fee of 10 token units, whose full pool of 20 carries a
\* fee of 2, within the first second, with the operator's withdrawals
FeeEntryFeeArgs == { [units |-> 10, frac |-> 0] }

NextFees ==
    \/ \E c \in Callers, f \in FeeEntryFeeArgs, d \in DrawTimes,
          h \in Commitments(roomCount, 1) :
             roomCount < MaxRoomsTimed /\ CreateRoom(c, f, d, h)
    \/ Settle
    \/ \E c \in Callers, a \in WithdrawAmounts : WithdrawFees(c, a)
    \/ \E c \in Callers, a \in EmergencyAmounts : EmergencyWithdrawTokens(c, a)

SpecFees == Init /\ [][NextFees]_vars

\* one room within the first second, claimPrize taken in two steps: while its
\* transfer is under way the recipient and the other players can call the token
\* and the contract; the contract's calls that fail change nothing
NextReentrant ==
    \/ \E p \in Players : Approve(p)
    \/ /\ ~Entered
       /\ \/ \E c \in Callers, f \in EntryFeeArgs, d \in DrawTimes,
                h \in Commitments(roomCount, 1) :
                   roomCount < MaxRoomsTimed /\ CreateRoom(c, f, d, h)
          \/ \E c \in Callers, r \in RoomIds, k \in PrivateKeys, n \in TicketNumbers :
                RevealWinningNumber(c, r, k, n)
          \/ \E c \in Callers, r \in RoomIds, d \in DrawTimes :
                \E h \in Commitments(r, rooms[r].roundNumber + 1) :
                   rooms[r].roundNumber < MaxRound /\ ResetRoom(c, r, d, h)
    \/ \E p \in Players, r \in RoomIds, n \in TicketNumbers :
          TotalTickets < MaxTickets /\ BuyTicket(p, r, n)
    \/ \E p \in Callers, r \in RoomIds, t \in 0 .. MaxTickets : ClaimPrizeBegin(p, r, t)
    \/ ClaimPrizeEnd
    \/ ClaimPrizeAbort

SpecReentrant == Init /\ [][NextReentrant]_vars

\* one room, created and reset with any commitment the operator may hand in
AllCommitments ==
    { Keccak(n, k, r, o, rd) : n \in TicketNumbers, k \in PrivateKeys, r \in RoomIds,
                               o \in {Owner, "alice"}, rd \in 1 .. (MaxRound + 1) }
    \cup {ZeroHash}

NextCommit ==
    \/ \E c \in Callers, f \in EntryFeeArgs, d \in DrawTimes, h \in AllCommitments :
          roomCount < MaxRoomsTimed /\ CreateRoom(c, f, d, h)
    \/ \E c \in Callers, r \in RoomIds, k \in PrivateKeys, n \in TicketNumbers :
          RevealWinningNumber(c, r, k, n)
    \/ \E c \in Callers, r \in RoomIds, d \in DrawTimes, h \in AllCommitments :
          rooms[r].roundNumber < MaxRound /\ ResetRoom(c, r, d, h)

SpecCommit == Init /\ [][NextCommit]_vars

(******************************** claims ***********************************)
\* how many PrizeClaimed events name the ticket
PaidCount(roomId, roundNumber, ticketId) ==
    LET hits == { e \in BagToSet(prizeClaimedEvents) :
                    /\ e.roomId = roomId
                    /\ e.roundNumber = roundNumber
                    /\ e.ticketId = ticketId }
    IN BagCardinality([e \in hits |-> prizeClaimedEvents[e]])

RECURSIVE SumAmounts(_, _)
SumAmounts(events, bag) ==
    IF events = {} THEN 0
    ELSE LET e == CHOOSE x \in events : TRUE
         IN e.amount * bag[e] + SumAmounts(events \ {e}, bag)

\* the total of the PrizeClaimed amounts of a round of a room
RoundPaid(roomId, roundNumber) ==
    SumAmounts({ e \in BagToSet(prizeClaimedEvents) :
                   e.roomId = roomId /\ e.roundNumber = roundNumber },
               prizeClaimedEvents)

CreatedRooms == { r \in RoomIds : r < roomCount }

\* C1: once a claimPrize on a ticket has succeeded its claim record stays true, a
\* later claimPrize on that ticket fails for every caller (with InvalidTicket when
\* the ticket's owner makes it and the contract is not paused), and no ticket is
\* named by more than one PrizeClaimed payment.
C1_Invariant ==
    /\ \A c \in ticketClaimed :
          c[2] = rooms[c[1]].roundNumber =>
             /\ \A caller \in Callers : ClaimPrizeErr(caller, c[1], c[3]) # "ok"
             /\ ~paused =>
                  ClaimPrizeErr(CurrentTickets(c[1])[c[3] + 1].player, c[1], c[3])
                     = "InvalidTicket"
    /\ \A r \in RoomIds, rd \in Rounds, t \in 0 .. MaxTickets :
          /\ PaidCount(r, rd, t) <= 1
          /\ PaidCount(r, rd, t) = 1 => << r, rd, t >> \in ticketClaimed

C1_ClaimOnce == []C1_Invariant /\ [][ticketClaimed \subseteq ticketClaimed']_vars

C1_Witness ==
    \E c \in ticketClaimed :
        /\ c[2] = rooms[c[1]].roundNumber
        /\ rooms[c[1]].revealed
        /\ CurrentTickets(c[1])[c[3] + 1].win
        /\ PaidCount(c[1], c[2], c[3]) = 1
        /\ ~paused
        /\ ClaimPrizeErr(CurrentTickets(c[1])[c[3] + 1].player, c[1], c[3]) = "InvalidTicket"

\* the tickets of the room's current round whose number is the winning number,
\* by ticket id
MatchingTickets(roomId) ==
    { t \in 0 .. (Len(CurrentTickets(roomId)) - 1) :
        CurrentTickets(roomId)[t + 1].number = rooms[roomId].winningNumber }

\* C2: when the claim of the last unclaimed winning ticket of a revealed round with
\* k >= 1 winning tickets is made, the amounts paid to the round's claimants total
\* k * floor((P - fee) / k), with P the pool and fee = floor(P * 10 / 100).
C2_Conservation ==
    [][\A r \in CreatedRooms :
         LET rd == rooms[r].roundNumber
             k == Cardinality(MatchingTickets(r))
             P == rooms[r].prizePool
             fee == (P * PLATFORM_FEE) \div 100
         IN ( /\ rooms[r].revealed
              /\ k >= 1
              /\ rooms'[r].roundNumber = rd
              /\ \E t \in MatchingTickets(r) : << r, rd, t >> \notin ticketClaimed
              /\ \A t \in MatchingTickets(r) : << r, rd, t >> \in ticketClaimed' )
            => RoundPaid(r, rd)' = k * ((P - fee) \div k)]_vars

\* the claim records of the room's current round
ClaimedInRound(roomId) ==
    { c \in ticketClaimed : c[1] = roomId /\ c[2] = rooms[roomId].roundNumber }

\* C3: a round's fee is booked to collectedFees exactly once, by the first
\* successful claimPrize of the round and as floor(prizePool * 10 / 100); later
\* claims of the round and buyTicket leave collectedFees unchanged.
C3_Invariant ==
    \A r \in CreatedRooms : rooms[r].feesCollected <=> ClaimedInRound(r) # {}

C3_Step ==
    /\ \A r \in CreatedRooms :
          rooms'[r].roundNumber = rooms[r].roundNumber =>
             /\ (ClaimedInRound(r) = {} /\ ClaimedInRound(r)' # {}) =>
                   collectedFees' = collectedFees
                                      + (rooms[r].prizePool * PLATFORM_FEE) \div 100
             /\ (ClaimedInRound(r) # {} /\ ClaimedInRound(r)' # ClaimedInRound(r)) =>
                   collectedFees' = collectedFees
    /\ collectedFees' > collectedFees =>
          \E r \in CreatedRooms : ClaimedInRound(r) = {} /\ ClaimedInRound(r)' # {}
    /\ roomTicketsByRound' # roomTicketsByRound /\ TotalTickets' > TotalTickets =>
          collectedFees' = collectedFees

C3_FeeBookedOnce == []C3_Invariant /\ [][C3_Step]_vars

C3_Witness ==
    \E r \in CreatedRooms :
        /\ Cardinality(ClaimedInRound(r)) = 2
        /\ rooms[r].feesCollected
        /\ collectedFees = 1

\* C4: each room's prizePool is the entry fees paid into its current
\* round minus the amounts already paid out for that round.
C4_PoolIsFeesInMinusPaidOut ==
    \A r \in CreatedRooms :
        rooms[r].prizePool =
            rooms[r].entryFee * Len(CurrentTickets(r))
               - RoundPaid(r, rooms[r].roundNumber)

\* C5: a ticket is added to a round's ledger only while the room's state is OPEN.
C5_BuyOnlyWhenOpen ==
    [][\A r \in CreatedRooms :
         ( /\ rooms'[r].roundNumber = rooms[r].roundNumber
           /\ Len(CurrentTickets(r))' > Len(CurrentTickets(r)) )
         => rooms[r].state = "OPEN"]_vars

\* C6: at or after the room's drawTime every buyTicket fails, whatever state is
\* stored, and no step adds a ticket to the room, enlarges its pool, changes a
\* player's ticket list or ticket counter for it, or takes funds or allowance
\* from a player when no room is before its drawTime.
C6_Invariant ==
    \A r \in CreatedRooms, p \in Players, n \in TicketNumbers :
        now >= rooms[r].drawTime =>
            BuyTicketErr(p, r, n) \in {"EnforcedPause", "BuyTicketAfterDrawTime"}

C6_Step ==
    /\ \A r \in CreatedRooms :
          now >= rooms[r].drawTime =>
             /\ \A rd \in Rounds :
                   Len(roomTicketsByRound'[r][rd]) = Len(roomTicketsByRound[r][rd])
             /\ rooms'[r].prizePool <= rooms[r].prizePool
             /\ playerTicketIds'[r] = playerTicketIds[r]
             /\ \A p \in Players :
                   playerStats'[p].roomTickets[r] = playerStats[p].roomTickets[r]
    /\ (\A r \in CreatedRooms : now >= rooms[r].drawTime) =>
          \A p \in Players :
             /\ balanceOf'[p] >= balanceOf[p]
             /\ allowance'[p] >= allowance[p]
             /\ playerStats'[p].totalTickets = playerStats[p].totalTickets

C6_NoPurchaseAfterDrawTime == []C6_Invariant /\ [][C6_Step]_vars

C6_Witness ==
    \E r \in CreatedRooms, p \in Players :
        /\ ~paused
        /\ now >= rooms[r].drawTime
        /\ rooms[r].state = "OPEN"
        /\ allowance[p] >= rooms[r].entryFee
        /\ balanceOf[p] >= rooms[r].entryFee
        /\ BuyTicketErr(p, r, 7) = "BuyTicketAfterDrawTime"

\* C7: a reveal succeeds only on a room in PENDING_REVEAL and not before its
\* drawTime; a room becomes REVEALED only from PENDING_REVEAL.
C7_RevealOnlyWhenPending ==
    [][\A r \in CreatedRooms :
         /\ (~rooms[r].revealed /\ rooms'[r].revealed) =>
               rooms[r].state = "PENDING_REVEAL" /\ now >= rooms[r].drawTime
         /\ (rooms[r].state # "REVEALED" /\ rooms'[r].state = "REVEALED") =>
               rooms[r].state = "PENDING_REVEAL"]_vars

\* C8: once a round is revealed every further revealWinningNumber on the room
\* fails for every caller and every argument (with AlreadyRevealed when the
\* operator makes it and the contract is not paused) until resetRoom starts the
\* next round, and the round's winning number does not change.
C8_Invariant ==
    \A r \in CreatedRooms, k \in PrivateKeys, n \in TicketNumbers :
        rooms[r].revealed =>
            /\ \A c \in Callers : RevealWinningNumberErr(c, r, k, n) # "ok"
            /\ ~paused => RevealWinningNumberErr(Owner, r, k, n) = "AlreadyRevealed"

C8_Step ==
    \A r \in CreatedRooms :
        rooms[r].revealed =>
            IF rooms'[r].roundNumber = rooms[r].roundNumber
            THEN rooms'[r].revealed /\ rooms'[r].winningNumber = rooms[r].winningNumber
            ELSE rooms'[r].roundNumber = rooms[r].roundNumber + 1 /\ ~rooms'[r].revealed

C8_RevealOnce == []C8_Invariant /\ [][C8_Step]_vars

C8_Witness ==
    \E r \in CreatedRooms, k \in PrivateKeys :
        /\ rooms[r].revealed
        /\ ~paused
        /\ VerifyWinningNumber(r, k, rooms[r].winningNumber)
        /\ RevealWinningNumberErr(Owner, r, k, rooms[r].winningNumber) = "AlreadyRevealed"

\* C9 as claimed: verification passes exactly when the stored commitment is the
\* hash of (number, key, room id, operator, current round).
C9_RoundTrip ==
    \A r \in CreatedRooms, k \in PrivateKeys, n \in TicketNumbers :
        VerifyWinningNumber(r, k, n)
            <=> rooms[r].encryptedWinningNumber
                   = Keccak(n, k, r, Owner, rooms[r].roundNumber)

\* C9 as amended: verification passes exactly when the stored commitment is the
\* hash of (number, key, room id, operator, current round) and the number is at
\* most 99; the operator's reveal of an unrevealed room succeeds in that case and
\* fails with InvalidVerification in every other.
C9_RoundTripValidNumber ==
    \A r \in CreatedRooms, k \in PrivateKeys, n \in TicketNumbers :
        LET h == rooms[r].encryptedWinningNumber
            same == /\ Len(h) = 5
                    /\ h[1] = n
                    /\ h[2] = k
                    /\ h[3] = r
                    /\ h[4] = Owner
                    /\ h[5] = rooms[r].roundNumber
        IN /\ VerifyWinningNumber(r, k, n) <=> (same /\ n <= 99)
           /\ (~rooms[r].revealed /\ ~paused) =>
                 RevealWinningNumberErr(Owner, r, k, n) =
                    IF same /\ n <= 99 THEN "ok" ELSE "InvalidVerification"

C9_Witness ==
    \E r \in CreatedRooms, k \in PrivateKeys :
        /\ rooms[r].revealed
        /\ rooms[r].roundNumber = 2
        /\ rooms[r].encryptedWinningNumber
              = << rooms[r].winningNumber, k, r, Owner, 2 >>

\* C10: in a revealed round a ticket carries the win flag exactly when its number
\* is the revealed winning number.
C10_WinFlagIffMatch ==
    \A r \in CreatedRooms :
        rooms[r].revealed =>
            \A i \in 1 .. Len(CurrentTickets(r)) :
                CurrentTickets(r)[i].win
                    <=> CurrentTickets(r)[i].number = rooms[r].winningNumber

\* the tickets of the room's current round that carry the win flag, by ticket id
WinFlagged(roomId) ==
    { t \in 0 .. (Len(CurrentTickets(roomId)) - 1) : CurrentTickets(roomId)[t + 1].win }

\* C11: claimPrize succeeds only for the owner of a current-round ticket whose win
\* flag is true and whose claim record is false.
C11_ClaimOnlyFlaggedWinner ==
    \A r \in CreatedRooms, c \in Callers, t \in 0 .. MaxTickets :
        ClaimPrizeErr(c, r, t) = "ok" =>
            /\ t < Len(CurrentTickets(r))
            /\ CurrentTickets(r)[t + 1].player = c
            /\ t \in WinFlagged(r)
            /\ ~IsClaimed(r, rooms[r].roundNumber, t)

\* C12: while the room's current round is not revealed every claimPrize on the
\* room fails.
C12_NoClaimBeforeReveal ==
    \A r \in CreatedRooms, c \in Callers, t \in 0 .. MaxTickets :
        ~rooms[r].revealed => ClaimPrizeErr(c, r, t) # "ok"

\* C13: in a CLOSED room whose round still has an unclaimed ticket with the win
\* flag, which is a round closed by forceCloseRoom, every claimPrize fails.
C13_ForceCloseFreezesClaims ==
    \A r \in CreatedRooms :
        ( /\ rooms[r].state = "CLOSED"
          /\ \E t \in WinFlagged(r) : ~IsClaimed(r, rooms[r].roundNumber, t) )
        => \A c \in Callers, t \in 0 .. MaxTickets : ClaimPrizeErr(c, r, t) # "ok"

\* C14: forceCloseRoom by the operator succeeds exactly when the room is REVEALED
\* and now >= revealTime + GRACE_PERIOD, fails with InvalidState in every other
\* state and with GracePeriodNotPassed before that time, and fails for every other
\* caller; a step that closes a room without recording a claim is made from
\* REVEALED after the grace period and changes nothing but that room's state.
C14_Invariant ==
    \A r \in CreatedRooms :
        /\ rooms[r].state # "REVEALED" =>
              /\ ForceCloseRoomErr(Owner, r) = "InvalidState"
              /\ ~ENABLED ForceCloseRoom(Owner, r)
        /\ (rooms[r].state = "REVEALED" /\ now < rooms[r].revealTime + GRACE_PERIOD) =>
              /\ ForceCloseRoomErr(Owner, r) = "GracePeriodNotPassed"
              /\ ~ENABLED ForceCloseRoom(Owner, r)
        /\ (rooms[r].state = "REVEALED" /\ now >= rooms[r].revealTime + GRACE_PERIOD) =>
              ForceCloseRoomErr(Owner, r) = "ok"
        /\ \A c \in Players : ForceCloseRoomErr(c, r) # "ok"

C14_Step ==
    \A r \in CreatedRooms :
        ( /\ rooms[r].state # "CLOSED"
          /\ rooms'[r].state = "CLOSED"
          /\ ticketClaimed' = ticketClaimed )
        => /\ rooms[r].state = "REVEALED"
           /\ now >= rooms[r].revealTime + GRACE_PERIOD
           /\ rooms' = [rooms EXCEPT ![r].state = "CLOSED"]
           /\ UNCHANGED << now, paused, roomCount, activeRoomIds, roomTicketsByRound,
                           ticketClaimed, playerTicketIds, playerStats, collectedFees,
                           balanceOf, allowance, prizeClaimedEvents >>

C14_ForceCloseGuarded == []C14_Invariant /\ [][C14_Step]_vars

C14_Witness ==
    \E r \in CreatedRooms :
        /\ rooms[r].state = "CLOSED"
        /\ rooms[r].revealed
        /\ now >= rooms[r].revealTime + GRACE_PERIOD
        /\ rooms[r].prizePool > 0
        /\ \E t \in WinFlagged(r) : ~IsClaimed(r, rooms[r].roundNumber, t)
        /\ ForceCloseRoomErr(Owner, r) = "InvalidState"

\* C15: on a room in OPEN or PENDING_REVEAL resetRoom fails for every caller, with
\* RoomNotResettable when the operator calls it on an unpaused contract, and no
\* step from such a state changes the room's round number, commitment or draw
\* time; a round number changes only from CLOSED or REVEALED.
C15_Invariant ==
    \A r \in CreatedRooms :
        rooms[r].state \in {"OPEN", "PENDING_REVEAL"} =>
            /\ \A c \in Callers, d \in DrawTimes, h \in AllCommitments :
                  /\ ResetRoomErr(c, r) # "ok"
                  /\ ~ENABLED ResetRoom(c, r, d, h)
            /\ ~paused => ResetRoomErr(Owner, r) = "RoomNotResettable"

C15_Step ==
    \A r \in CreatedRooms :
        /\ rooms[r].state \in {"OPEN", "PENDING_REVEAL"} =>
              /\ rooms'[r].roundNumber = rooms[r].roundNumber
              /\ rooms'[r].encryptedWinningNumber = rooms[r].encryptedWinningNumber
              /\ rooms'[r].drawTime = rooms[r].drawTime
        /\ rooms'[r].roundNumber # rooms[r].roundNumber =>
              rooms[r].state \in {"CLOSED", "REVEALED"}

C15_ResetOnlyWhenOver == []C15_Invariant /\ [][C15_Step]_vars

C15_Witness ==
    \E r \in CreatedRooms :
        /\ rooms[r].state = "OPEN"
        /\ ~paused
        /\ rooms[r].prizePool > 0
        /\ rooms[r].roundNumber < MaxRound
        /\ ResetRoomErr(Owner, r) = "RoomNotResettable"

\* C16: a step that changes a room's round number raises it by exactly 1, leaves
\* the room OPEN, not revealed, with feesCollected false, revealTime 0, winning
\* number 0, the draw time and a commitment handed in for the new round, and an
\* empty ledger for the new round, and changes no ticket and no claim record; a
\* created room's round number is at least 1, is 1 at creation, and never
\* decreases.
C16_Invariant ==
    \A r \in RoomIds :
        IF r \in CreatedRooms THEN rooms[r].roundNumber >= 1
        ELSE rooms[r].roundNumber = 0

C16_Step ==
    \A r \in RoomIds :
        /\ rooms'[r].roundNumber >= rooms[r].roundNumber
        /\ (r \notin CreatedRooms /\ r \in CreatedRooms') => rooms'[r].roundNumber = 1
        /\ (r \in CreatedRooms /\ rooms'[r].roundNumber # rooms[r].roundNumber) =>
              /\ rooms'[r].roundNumber = rooms[r].roundNumber + 1
              /\ rooms'[r].state = "OPEN"
              /\ ~rooms'[r].revealed
              /\ ~rooms'[r].feesCollected
              /\ rooms'[r].revealTime = 0
              /\ rooms'[r].winningNumber = 0
              /\ rooms'[r].drawTime \in DrawTimes
              /\ rooms'[r].encryptedWinningNumber
                    \in Commitments(r, rooms'[r].roundNumber)
              /\ rooms'[r].entryFee = rooms[r].entryFee
              /\ roomTicketsByRound'[r][rooms'[r].roundNumber] = << >>
              /\ roomTicketsByRound' = roomTicketsByRound
              /\ ticketClaimed' = ticketClaimed

C16_ResetStartsNextRound == []C16_Invariant /\ [][C16_Step]_vars

C16_Witness ==
    \E r \in CreatedRooms :
        /\ rooms[r].roundNumber = 2
        /\ rooms[r].state = "OPEN"
        /\ CurrentTickets(r) = << >>
        /\ roomTicketsByRound[r][1] # << >>
        /\ << r, 1, 0 >> \in ticketClaimed
        /\ roomTicketsByRound[r][1][1].win

\* C17: a step that changes a room's round number leaves its prizePool as it was,
\* and a step that adds a ticket to the room's current round adds exactly the
\* entry fee to the prizePool, whatever was carried into the round.
C17_PoolCarriedOver ==
    [][\A r \in CreatedRooms :
         /\ rooms'[r].roundNumber # rooms[r].roundNumber =>
               rooms'[r].prizePool = rooms[r].prizePool
         /\ ( /\ rooms'[r].roundNumber = rooms[r].roundNumber
              /\ Len(CurrentTickets(r))' = Len(CurrentTickets(r)) + 1 )
            => rooms'[r].prizePool = rooms[r].prizePool + rooms[r].entryFee]_vars

C17_Witness ==
    \E r \in CreatedRooms :
        /\ rooms[r].roundNumber = 2
        /\ \A c \in ticketClaimed : c[1] # r
        /\ Len(roomTicketsByRound[r][1]) = 1
        /\ \A i \in 1 .. Len(roomTicketsByRound[r][1]) : ~roomTicketsByRound[r][1][i].win
        /\ Len(CurrentTickets(r)) = 1
        /\ rooms[r].prizePool = 2 * rooms[r].entryFee
        /\ rooms[r].prizePool > 0

\* C18: while the contract is paused buyTicket and claimPrize fail with the pause
\* error for every caller, createRoom, revealWinningNumber and resetRoom fail with
\* it for the operator and fail for everyone else, none of the five can make a
\* step, and no step changes a ticket, a claim record, a counter, a balance, the
\* number of rooms or anything of a room but its state, and the queries of a
\* created room's prize pool and of a revealed room's winning number answer; while
\* it is not paused none of the five fails with the pause error.
C18_Invariant ==
    /\ paused =>
          /\ \A r \in CreatedRooms :
                /\ GetPrizePoolErr(r) = "ok"
                /\ rooms[r].revealed => GetWinningNumberErr(r) = "ok"
          /\ \A c \in Players, r \in RoomIds, n \in TicketNumbers :
                /\ BuyTicketErr(c, r, n) = "EnforcedPause"
                /\ ~ENABLED BuyTicket(c, r, n)
          /\ \A c \in Callers, r \in RoomIds, t \in 0 .. MaxTickets :
                /\ ClaimPrizeErr(c, r, t) = "EnforcedPause"
                /\ ~ENABLED ClaimPrize(c, r, t)
          /\ \A c \in Callers, r \in RoomIds, k \in PrivateKeys, n \in TicketNumbers :
                /\ RevealWinningNumberErr(c, r, k, n) # "ok"
                /\ RevealWinningNumberErr(Owner, r, k, n) = "EnforcedPause"
                /\ ~ENABLED RevealWinningNumber(c, r, k, n)
          /\ \A c \in Callers, r \in RoomIds, d \in DrawTimes :
                /\ ResetRoomErr(c, r) # "ok"
                /\ ResetRoomErr(Owner, r) = "EnforcedPause"
                /\ \A h \in Commitments(r, rooms[r].roundNumber + 1) :
                      ~ENABLED ResetRoom(c, r, d, h)
          /\ \A c \in Callers, f \in EntryFeeArgs, d \in DrawTimes :
                /\ CreateRoomErr(c, f) # "ok"
                /\ CreateRoomErr(Owner, f) = "EnforcedPause"
                /\ \A h \in Commitments(roomCount, 1) : ~ENABLED CreateRoom(c, f, d, h)
    /\ ~paused =>
          /\ \A c \in Players, r \in RoomIds, n \in TicketNumbers :
                BuyTicketErr(c, r, n) # "EnforcedPause"
          /\ \A c \in Callers, r \in RoomIds, t \in 0 .. MaxTickets :
                ClaimPrizeErr(c, r, t) # "EnforcedPause"
          /\ \A c \in Callers, r \in RoomIds, k \in PrivateKeys, n \in TicketNumbers :
                RevealWinningNumberErr(c, r, k, n) # "EnforcedPause"
          /\ \A c \in Callers, r \in RoomIds : ResetRoomErr(c, r) # "EnforcedPause"
          /\ \A c \in Callers, f \in EntryFeeArgs : CreateRoomErr(c, f) # "EnforcedPause"

C18_Step ==
    paused =>
        /\ UNCHANGED << roomCount, activeRoomIds, roomTicketsByRound, ticketClaimed,
                        playerTicketIds, playerStats, collectedFees, balanceOf,
                        prizeClaimedEvents >>
        /\ \A r \in RoomIds : [rooms'[r] EXCEPT !.state = rooms[r].state] = rooms[r]

C18_PauseRejects == []C18_Invariant /\ [][C18_Step]_vars

C18_Witness ==
    \E r \in CreatedRooms, p \in Players, k \in PrivateKeys :
        /\ paused
        /\ now < rooms[r].drawTime
        /\ allowance[p] >= rooms[r].entryFee
        /\ balanceOf[p] >= rooms[r].entryFee
        /\ BuyTicketErr(p, r, 7) = "EnforcedPause"
        /\ ~rooms[r].revealed
        /\ VerifyWinningNumber(r, k, 7)
        /\ RevealWinningNumberErr(Owner, r, k, 7) = "EnforcedPause"
        /\ \E t \in 0 .. (Len(CurrentTickets(r)) - 1) :
              /\ CurrentTickets(r)[t + 1].number = 0
              /\ ClaimPrizeErr(CurrentTickets(r)[t + 1].player, r, t) = "EnforcedPause"

\* C19: withdrawFees(a) by the operator fails with InvalidAmount when a is above
\* collectedFees and otherwise succeeds whenever the contract holds the tokens (it
\* fails on the token transfer when it does not); a step that lowers collectedFees
\* lowers it by a, or to 0 for a = 0, moves exactly that amount from the contract
\* to the operator, and changes no room and nothing else.
C19_Invariant ==
    /\ collectedFees >= 0
    /\ \A a \in WithdrawAmounts :
          LET w == IF a = 0 THEN collectedFees ELSE a
          IN /\ a > collectedFees =>
                   /\ WithdrawFeesErr(Owner, a) = "InvalidAmount"
                   /\ ~ENABLED WithdrawFees(Owner, a)
             /\ (a <= collectedFees /\ balanceOf[Contract] >= w) =>
                   WithdrawFeesErr(Owner, a) = "ok"
             /\ (a <= collectedFees /\ balanceOf[Contract] < w) =>
                   /\ WithdrawFeesErr(Owner, a) = "ERC20InsufficientBalance"
                   /\ ~ENABLED WithdrawFees(Owner, a)
             /\ \A c \in Players : WithdrawFeesErr(c, a) # "ok"

C19_Step ==
    collectedFees' < collectedFees =>
        /\ \E a \in WithdrawAmounts :
              LET w == IF a = 0 THEN collectedFees ELSE a
              IN /\ a <= collectedFees
                 /\ collectedFees' = collectedFees - w
                 /\ balanceOf' = [balanceOf EXCEPT ![Contract] = @ - w,
                                                   ![Owner] = @ + w]
        /\ UNCHANGED << now, paused, roomCount, activeRoomIds, rooms,
                        roomTicketsByRound, ticketClaimed, playerTicketIds,
                        playerStats, allowance, prizeClaimedEvents >>

C20_Invariant ==
    /\ \A c \in Callers, f \in EntryFeeArgs, d \in DrawTimes, h \in AllCommitments :
          CreateRoomErr(c, f) # "ok" => ~ENABLED CreateRoom(c, f, d, h)
    /\ \A c \in Players, r \in RoomIds, n \in TicketNumbers :
          BuyTicketErr(c, r, n) # "ok" => ~ENABLED BuyTicket(c, r, n)
    /\ \A c \in Callers, r \in RoomIds, k \in PrivateKeys, n \in TicketNumbers :
          RevealWinningNumberErr(c, r, k, n) # "ok"
             => ~ENABLED RevealWinningNumber(c, r, k, n)
    /\ \A c \in Callers, r \in RoomIds, t \in 0 .. MaxTickets :
          ClaimPrizeErr(c, r, t) # "ok" => ~ENABLED ClaimPrize(c, r, t)
    /\ \A c \in Callers, r \in RoomIds, d \in DrawTimes, h \in AllCommitments :
          ResetRoomErr(c, r) # "ok" => ~ENABLED ResetRoom(c, r, d, h)
    /\ \A c \in Callers, r \in RoomIds :
          ForceCloseRoomErr(c, r) # "ok" => ~ENABLED ForceCloseRoom(c, r)
    /\ \A c \in Callers :
          /\ EmergencyPauseErr(c) # "ok" => ~ENABLED EmergencyPause(c)
          /\ ResumeOperationsErr(c) # "ok" => ~ENABLED ResumeOperations(c)
    /\ \A c \in Callers, a \in WithdrawAmounts :
          WithdrawFeesErr(c, a) # "ok" => ~ENABLED WithdrawFees(c, a)
    /\ \A c \in Callers, a \in EmergencyAmounts :
          EmergencyWithdrawTokensErr(c, a) # "ok"
             => ~ENABLED EmergencyWithdrawTokens(c, a)

C20_Step ==
    /\ \A c \in ticketClaimed' \ ticketClaimed :
          LET ticket == roomTicketsByRound[c[1]][c[2]][c[3] + 1]
              paid == balanceOf'[ticket.player] - balanceOf[ticket.player]
          IN /\ ticketClaimed' = ticketClaimed \cup {c}
             /\ playerStats'[ticket.player].totalClaimed
                   = playerStats[ticket.player].totalClaimed + 1
             /\ paid >= 0
             /\ balanceOf'[Contract] = balanceOf[Contract] - paid
             /\ RoundPaid(c[1], c[2])' = RoundPaid(c[1], c[2]) + paid
    /\ \A p \in Players :
          /\ balanceOf'[p] > balanceOf[p] =>
                \E c \in ticketClaimed' \ ticketClaimed :
                   roomTicketsByRound[c[1]][c[2]][c[3] + 1].player = p
          /\ balanceOf'[p] < balanceOf[p] =>
                \E r \in CreatedRooms :
                   /\ roomTicketsByRound'[r][rooms[r].roundNumber]
                         = Append(CurrentTickets(r),
                                  roomTicketsByRound'[r][rooms[r].roundNumber]
                                                      [Len(CurrentTickets(r)) + 1])
                   /\ roomTicketsByRound'[r][rooms[r].roundNumber]
                                         [Len(CurrentTickets(r)) + 1].player = p
                   /\ balanceOf'[p] = balanceOf[p] - rooms[r].entryFee
                   /\ balanceOf'[Contract] = balanceOf[Contract] + rooms[r].entryFee
                   /\ allowance'[p] = allowance[p] - rooms[r].entryFee
                   /\ rooms'[r].prizePool = rooms[r].prizePool + rooms[r].entryFee
                   /\ playerStats'[p].totalTickets = playerStats[p].totalTickets + 1
    /\ \A r \in CreatedRooms :
          \A rd \in Rounds :
             Len(roomTicketsByRound'[r][rd]) > Len(roomTicketsByRound[r][rd]) =>
                \E p \in Players : balanceOf'[p] = balanceOf[p] - rooms[r].entryFee
    /\ collectedFees' < collectedFees =>
          balanceOf'[Owner] = balanceOf[Owner] + (collectedFees - collectedFees')

C21_UnrevealedRoomCanClose ==
    \A r \in CreatedRooms :
        ( /\ ~paused
          /\ ~rooms[r].revealed
          /\ rooms[r].state # "CLOSED"
          /\ now >= rooms[r].drawTime + GRACE_PERIOD )
        => ENABLED (Next /\ rooms'[r].state = "CLOSED")

\* C22: a room whose round is revealed is REVEALED or CLOSED.
C22_RevealedIsRevealedOrClosed ==
    \A r \in RoomIds : rooms[r].revealed => rooms[r].state \in {"REVEALED", "CLOSED"}

C22_Witness ==
    \E r \in CreatedRooms :
        /\ rooms[r].revealed
        /\ rooms[r].state = "CLOSED"
        /\ rooms[r].roundNumber = 2

\* C23: every ticket in every round's ledger of every room has a number from 0
\* to 99.
C23_TicketNumbersInRange ==
    \A r \in RoomIds, rd \in Rounds :
        \A i \in 1 .. Len(roomTicketsByRound[r][rd]) :
            /\ roomTicketsByRound[r][rd][i].number >= 0
            /\ roomTicketsByRound[r][rd][i].number <= 99

C23_Witness ==
    \E r \in CreatedRooms, p \in Players :
        /\ Len(CurrentTickets(r)) = 1
        /\ CurrentTickets(r)[1].number = 7
        /\ TotalTickets < MaxTickets
        /\ BuyTicketErr(p, r, 7) = "ok"
        /\ BuyTicketErr(p, r, 100) = "InvalidNumber"

\* C24 as claimed: on a contract that is not paused buyTicket with a number above
\* 99 fails with InvalidNumber in every state of the room and at every time.
C24_InvalidNumberAlways ==
    \A r \in CreatedRooms, p \in Players :
        ~paused => BuyTicketErr(p, r, 100) = "InvalidNumber"

\* C24 as amended: buyTicket with a number above 99 fails in every state and
\* makes no step; on a contract that is not paused it fails with InvalidNumber
\* before the room's drawTime, whatever the room's state, and with
\* BuyTicketAfterDrawTime from drawTime on.
C24_InvalidNumberBeforeDrawTime ==
    \A r \in CreatedRooms, p \in Players :
        /\ BuyTicketErr(p, r, 100) # "ok"
        /\ ~ENABLED BuyTicket(p, r, 100)
        /\ ~paused =>
              BuyTicketErr(p, r, 100) =
                 IF now < rooms[r].drawTime THEN "InvalidNumber"
                 ELSE "BuyTicketAfterDrawTime"

C24_Witness ==
    \E r \in CreatedRooms, p \in Players :
        /\ ~paused
        /\ now < rooms[r].drawTime
        /\ rooms[r].state = "CLOSED"
        /\ allowance[p] >= rooms[r].entryFee
        /\ BuyTicketErr(p, r, 100) = "InvalidNumber"
        /\ BuyTicketErr(p, r, 7) = "ok"

\* C25: buyTicket by a payer whose allowance is below the room's entry fee fails
\* and makes no step, with InsufficientAllowance when the contract is not paused,
\* the time is before drawTime and the number is valid; no step adds a ticket of
\* such a payer to the room or changes the payer's ticket counter for it, and
\* while the allowance is below every room's fee no step takes tokens from the
\* payer or changes the payer's ticket total.
C25_Invariant ==
    \A r \in CreatedRooms, p \in Players, n \in TicketNumbers :
        allowance[p] < rooms[r].entryFee =>
            /\ BuyTicketErr(p, r, n) # "ok"
            /\ ~ENABLED BuyTicket(p, r, n)
            /\ (~paused /\ now < rooms[r].drawTime /\ n <= 99) =>
                  BuyTicketErr(p, r, n) = "InsufficientAllowance"

C25_Step ==
    \A p \in Players :
        /\ \A r \in CreatedRooms :
              allowance[p] < rooms[r].entryFee =>
                 /\ playerStats'[p].roomTickets[r] = playerStats[p].roomTickets[r]
                 /\ playerTicketIds'[r][p] = playerTicketIds[r][p]
                 /\ \A rd \in Rounds :
                       \A i \in 1 .. Len(roomTicketsByRound'[r][rd]) :
                          i > Len(roomTicketsByRound[r][rd]) =>
                             roomTicketsByRound'[r][rd][i].player # p
        /\ (\A r \in CreatedRooms : allowance[p] < rooms[r].entryFee) =>
              /\ balanceOf'[p] >= balanceOf[p]
              /\ playerStats'[p].totalTickets = playerStats[p].totalTickets

C25_AllowanceRequired == []C25_Invariant /\ [][C25_Step]_vars

C25_Witness ==
    \E r \in CreatedRooms, p \in Players :
        /\ ~paused
        /\ now < rooms[r].drawTime
        /\ allowance[p] < rooms[r].entryFee
        /\ balanceOf[p] >= rooms[r].entryFee
        /\ TotalTickets < MaxTickets
        /\ playerStats[p].totalTickets = 1
        /\ BuyTicketErr(p, r, 7) = "InsufficientAllowance"

\* C26: every operator-only operation called by someone other than the operator
\* fails with InvalidOwner.
C26_NonOperatorGetsInvalidOwner ==
    \A c \in Players :
        /\ \A f \in EntryFeeArgs : CreateRoomErr(c, f) = "InvalidOwner"
        /\ \A r \in RoomIds, k \in PrivateKeys, n \in TicketNumbers :
              RevealWinningNumberErr(c, r, k, n) = "InvalidOwner"
        /\ \A r \in RoomIds : ResetRoomErr(c, r) = "InvalidOwner"
        /\ \A r \in RoomIds : ForceCloseRoomErr(c, r) = "InvalidOwner"
        /\ EmergencyPauseErr(c) = "InvalidOwner"
        /\ ResumeOperationsErr(c) = "InvalidOwner"
        /\ \A a \in WithdrawAmounts : WithdrawFeesErr(c, a) = "InvalidOwner"

\* C27: claimPrize with a ticket id that the ledger of the room's current round
\* does not hold fails, with InvalidTicket when the contract is not paused; a step
\* that records a claim records it for the room's current round, for an id in
\* that round's ledger, and pays nobody but that ticket's player; no step adds to
\* the amount paid for an earlier round.
C27_Invariant ==
    \A r \in CreatedRooms, c \in Callers, t \in 0 .. MaxTickets :
        t >= Len(roomTicketsByRound[r][rooms[r].roundNumber]) =>
            /\ ClaimPrizeErr(c, r, t) # "ok"
            /\ ~ENABLED ClaimPrize(c, r, t)
            /\ ~paused => ClaimPrizeErr(c, r, t) = "InvalidTicket"

C27_Step ==
    /\ \A c \in ticketClaimed' \ ticketClaimed :
          /\ c[2] = rooms[c[1]].roundNumber
          /\ c[3] < Len(roomTicketsByRound[c[1]][c[2]])
          /\ \A p \in Players :
                balanceOf'[p] # balanceOf[p] =>
                   p = roomTicketsByRound[c[1]][c[2]][c[3] + 1].player
    /\ \A r \in CreatedRooms, rd \in Rounds :
          rd < rooms[r].roundNumber => RoundPaid(r, rd)' = RoundPaid(r, rd)

C27_OnlyCurrentRoundPaid == []C27_Invariant /\ [][C27_Step]_vars

C27_Witness ==
    \E r \in CreatedRooms :
        /\ ~paused
        /\ rooms[r].roundNumber = 2
        /\ CurrentTickets(r) = << >>
        /\ Len(roomTicketsByRound[r][1]) >= 1
        /\ roomTicketsByRound[r][1][1].number = rooms[r].winningNumber
        /\ << r, 1, 0 >> \notin ticketClaimed
        /\ ClaimPrizeErr(roomTicketsByRound[r][1][1].player, r, 0) = "InvalidTicket"

\* C28: the entry fee stored by createRoom is the entryFee argument, which is
\* units * 10^12 + frac and so equals a stored fee below 10^12 only when units = 0
\* and frac is the stored fee; every purchase moves exactly the stored fee from
\* the payer to the contract and adds it to the prizePool.
C28_StoredFeeIsArgument ==
    [][\A r \in RoomIds :
         /\ (r \notin CreatedRooms /\ r \in CreatedRooms') =>
               \E f \in EntryFeeArgs :
                  /\ CreateRoomErr(Owner, f) = "ok"
                  /\ f.units = 0
                  /\ f.frac = rooms'[r].entryFee
         /\ ( /\ r \in CreatedRooms
              /\ rooms'[r].roundNumber = rooms[r].roundNumber
              /\ Len(CurrentTickets(r))' = Len(CurrentTickets(r)) + 1 )
            => /\ rooms'[r].prizePool = rooms[r].prizePool + rooms[r].entryFee
               /\ balanceOf'[Contract] = balanceOf[Contract] + rooms[r].entryFee]_vars

\* C29: while the token transfer of a claimPrize is under way, the claim record
\* of the ticket being paid is already true, every re-entrant claimPrize (on that
\* ticket or another), buyTicket and withdrawFees is rejected and changes nothing,
\* and no ticket is paid twice: a balance rises only by a claimPrize that newly
\* records its ticket, and no ticket is named by two PrizeClaimed payments.
C29_Invariant ==
    /\ \A r \in RoomIds, rd \in Rounds, t \in 0 .. MaxTickets : PaidCount(r, rd, t) <= 1
    /\ \A c \in claiming :
          /\ c.roundNumber = rooms[c.roomId].roundNumber
          /\ IsClaimed(c.roomId, c.roundNumber, c.ticketId)
          /\ PaidCount(c.roomId, c.roundNumber, c.ticketId) = 0
          /\ \A p \in Callers, r \in RoomIds, t \in 0 .. MaxTickets :
                /\ ClaimPrizeErr(p, r, t) = "ReentrancyGuardReentrantCall"
                /\ ~ENABLED ClaimPrizeBegin(p, r, t)
          /\ \A p \in Players, r \in RoomIds, n \in TicketNumbers :
                /\ BuyTicketErr(p, r, n) = "ReentrancyGuardReentrantCall"
                /\ ~ENABLED BuyTicket(p, r, n)
          /\ \A p \in Callers, a \in WithdrawAmounts :
                /\ WithdrawFeesErr(p, a) # "ok"
                /\ ~ENABLED WithdrawFees(p, a)

C29_Step ==
    /\ (Entered /\ Entered') =>
          UNCHANGED << claiming, ticketClaimed, rooms, roomTicketsByRound, balanceOf,
                       collectedFees, playerStats, prizeClaimedEvents >>
    /\ \A p \in Players :
          balanceOf'[p] > balanceOf[p] =>
             /\ ~Entered
             /\ \E c \in claiming' :
                   /\ c.caller = p
                   /\ ~IsClaimed(c.roomId, c.roundNumber, c.ticketId)
                   /\ IsClaimed(c.roomId, c.roundNumber, c.ticketId)'
                   /\ ticketClaimed' =
                         ticketClaimed \cup {<< c.roomId, c.roundNumber, c.ticketId >>}
                   /\ balanceOf'[p] = balanceOf[p] + c.amount
                   /\ \A q \in Players \ {p} : balanceOf'[q] = balanceOf[q]

C29_ReentrantCallCannotPayTwice == []C29_Invariant /\ [][C29_Step]_vars

\* a transfer of a positive prize is under way while another ticket of the round,
\* of another player, matches the winning number and is unclaimed
C29_Witness ==
    \E c \in claiming :
        /\ c.amount > 0
        /\ \E i \in 1 .. Len(CurrentTickets(c.roomId)) :
              /\ i - 1 # c.ticketId
              /\ CurrentTickets(c.roomId)[i].player # c.caller
              /\ CurrentTickets(c.roomId)[i].number = rooms[c.roomId].winningNumber
              /\ ~IsClaimed(c.roomId, c.roundNumber, i - 1)
              /\ ClaimPrizeErr(CurrentTickets(c.roomId)[i].player, c.roomId, i - 1)
                    = "ReentrancyGuardReentrantCall"

\* C30: emergencyWithdrawTokens(a) by the operator succeeds exactly when a is not
\* above the contract's token balance and fails with InvalidAmount otherwise; the
\* call moves exactly a from the contract to the operator and changes nothing
\* else, no room's prizePool and not collectedFees.
C30_Invariant ==
    \A a \in EmergencyAmounts :
        /\ a > balanceOf[Contract] =>
              /\ EmergencyWithdrawTokensErr(Owner, a) = "InvalidAmount"
              /\ ~ENABLED EmergencyWithdrawTokens(Owner, a)
        /\ a <= balanceOf[Contract] =>
              /\ EmergencyWithdrawTokensErr(Owner, a) = "ok"
              /\ ENABLED EmergencyWithdrawTokens(Owner, a)

C30_Step ==
    (balanceOf'[Owner] # balanceOf[Owner] /\ collectedFees' = collectedFees) =>
        \E a \in EmergencyAmounts :
           /\ a <= balanceOf[Contract]
           /\ balanceOf' = [balanceOf EXCEPT ![Contract] = @ - a, ![Owner] = @ + a]
           /\ \A r \in RoomIds : rooms'[r].prizePool = rooms[r].prizePool
           /\ UNCHANGED << now, paused, roomCount, activeRoomIds, rooms,
                           roomTicketsByRound, ticketClaimed, playerTicketIds,
                           playerStats, collectedFees, allowance, prizeClaimedEvents >>

C30_EmergencyWithdrawTokens == []C30_Invariant /\ [][C30_Step]_vars

\* the operator has taken 5 of the 10 tokens of a room whose prizePool is still 10
C30_Witness ==
    /\ balanceOf[Owner] = 5
    /\ balanceOf[Contract] = 5
    /\ collectedFees = 0
    /\ \E r \in CreatedRooms : rooms[r].prizePool = 10
    /\ EmergencyWithdrawTokensErr(Owner, 1000) = "InvalidAmount"

\* C31: claimPrize writes no internal state after it has invoked the token
\* transfer: the step that completes a claimPrize whose transfer has returned
\* (the one that emits PrizeClaimed) leaves the rooms, the claim records, the
\* ledgers, the statistics and the collected fees as they were at the transfer.
C31_NoWriteAfterTransfer ==
    [][(Entered /\ ~Entered' /\ prizeClaimedEvents' # prizeClaimedEvents) =>
          UNCHANGED << rooms, ticketClaimed, roomTicketsByRound, playerTicketIds,
                       playerStats, collectedFees >>]_vars

\* C32: a buyTicket called at or after the drawTime of an OPEN room is rejected
\* with BuyTicketAfterDrawTime and leaves the room's stored state PENDING_REVEAL.
C32_LazyTransitionKept ==
    \A r \in CreatedRooms, p \in Players, n \in TicketNumbers :
        (~paused /\ rooms[r].state = "OPEN" /\ now >= rooms[r].drawTime) =>
            /\ BuyTicketErr(p, r, n) = "BuyTicketAfterDrawTime"
            /\ BuyTicketStoredStateAfter(p, r, n) = "PENDING_REVEAL"

\* C33: a successful claimPrize moves the room to CLOSED and sets its prizePool
\* to 0 exactly when, with the new claim recorded, no ticket of the current round
\* that matches the winning number is unclaimed; otherwise it leaves the room's
\* state and prizePool as they were, so the next claim of the round starts from
\* the same pool.
C33_ClaimClosesWhenAllClaimed ==
    [][\A r \in CreatedRooms :
         ( /\ rooms'[r].roundNumber = rooms[r].roundNumber
           /\ ClaimedInRound(r) \subseteq ClaimedInRound(r)'
           /\ ClaimedInRound(r)' # ClaimedInRound(r) )
         => IF MatchingTickets(r) \subseteq { c[3] : c \in ClaimedInRound(r)' }
            THEN rooms'[r].state = "CLOSED" /\ rooms'[r].prizePool = 0
            ELSE /\ rooms'[r].state = rooms[r].state
                 /\ rooms'[r].prizePool = rooms[r].prizePool]_vars

\* one of two matching tickets is claimed: the room is still REVEALED with the
\* whole pool of 10
C33_Witness ==
    \E r \in CreatedRooms :
        /\ Cardinality(MatchingTickets(r)) = 2
        /\ Cardinality(ClaimedInRound(r)) = 1
        /\ rooms[r].state = "REVEALED"
        /\ rooms[r].prizePool = 10
        /\ PaidCount(r, rooms[r].roundNumber, 0) + PaidCount(r, rooms[r].roundNumber, 1) = 1

\* C34: the ticket at index i of round r of a room has id = i, roundNumber = r
\* and that room's id; a ledger only grows, by one ticket at its end; a stored
\* ticket's owner, number, id, room and round never change, and its win flag
\* only ever goes from false to true.
C34_Invariant ==
    \A r \in RoomIds, rd \in Rounds :
        \A i \in 1 .. Len(roomTicketsByRound[r][rd]) :
            /\ roomTicketsByRound[r][rd][i].id = i - 1
            /\ roomTicketsByRound[r][rd][i].roundNumber = rd
            /\ roomTicketsByRound[r][rd][i].roomId = r

C34_Step ==
    \A r \in RoomIds, rd \in Rounds :
        LET old == roomTicketsByRound[r][rd]
            new == roomTicketsByRound'[r][rd]
        IN /\ Len(new) \in {Len(old), Len(old) + 1}
           /\ \A i \in 1 .. Len(old) :
                 /\ new[i].player = old[i].player
                 /\ new[i].number = old[i].number
                 /\ new[i].id = old[i].id
                 /\ new[i].roomId = old[i].roomId
                 /\ new[i].roundNumber = old[i].roundNumber
                 /\ old[i].win => new[i].win

C34_LedgerAppendOnly == []C34_Invariant /\ [][C34_Step]_vars

\* a second round's ledger starts again at id 0 while the first round's ticket 0
\* keeps its win flag
C34_Witness ==
    \E r \in CreatedRooms :
        /\ Len(roomTicketsByRound[r][1]) >= 1
        /\ roomTicketsByRound[r][1][1].win
        /\ Len(roomTicketsByRound[r][2]) >= 1
        /\ roomTicketsByRound[r][2][1].id = 0
        /\ rooms[r].revealed

\* the tickets a player owns in a room, over all rounds, as (round, id) pairs
TicketsOf(p, roomId) ==
    { x \in Rounds \X (0 .. MaxTickets) :
        /\ x[2] < Len(roomTicketsByRound[roomId][x[1]])
        /\ roomTicketsByRound[roomId][x[1]][x[2] + 1].player = p }

\* C35: for every player, totalTickets is the number of tickets the player owns
\* over all rooms and rounds, totalWins the number of those with the win flag,
\* totalClaimed the number of those whose claim record is true; roomTickets and
\* roomWins are the same counts within each room; no counter ever decreases.
C35_Invariant ==
    \A p \in Players :
        LET own == { y \in RoomIds \X Rounds \X (0 .. MaxTickets) :
                       << y[2], y[3] >> \in TicketsOf(p, y[1]) }
            won == { y \in own : roomTicketsByRound[y[1]][y[2]][y[3] + 1].win }
        IN /\ playerStats[p].totalTickets = Cardinality(own)
           /\ playerStats[p].totalWins = Cardinality(won)
           /\ playerStats[p].totalClaimed = Cardinality(own \cap ticketClaimed)
           /\ \A r \in RoomIds :
                 /\ playerStats[p].roomTickets[r] = Cardinality(TicketsOf(p, r))
                 /\ playerStats[p].roomWins[r] =
                       Cardinality({ y \in won : y[1] = r })

C35_Step ==
    \A p \in Players :
        /\ playerStats'[p].totalTickets >= playerStats[p].totalTickets
        /\ playerStats'[p].totalWins >= playerStats[p].totalWins
        /\ playerStats'[p].totalClaimed >= playerStats[p].totalClaimed
        /\ \A r \in RoomIds :
              /\ playerStats'[p].roomTickets[r] >= playerStats[p].roomTickets[r]
              /\ playerStats'[p].roomWins[r] >= playerStats[p].roomWins[r]

C35_StatsCountTickets == []C35_Invariant /\ [][C35_Step]_vars

\* a player with a ticket in each of two rooms, one of them a claimed winner
C35_Witness ==
    \E p \in Players :
        /\ playerStats[p].totalTickets = 2
        /\ playerStats[p].roomTickets[0] = 1
        /\ playerStats[p].roomTickets[1] = 1
        /\ playerStats[p].totalWins = 1
        /\ playerStats[p].totalClaimed = 1

\* C36: getTicketsForAddress returns one entry per ticket the player bought in
\* the room over all rounds: as many entries as tickets, every ticket among
\* them, and every entry the stored ticket of its round and id.
C36_TicketsForAddress ==
    \A r \in CreatedRooms, p \in Players :
        LET got == GetTicketsForAddress(r, p)
        IN /\ Len(got) = Cardinality(TicketsOf(p, r))
           /\ { << got[i].roundNumber, got[i].id >> : i \in 1 .. Len(got) }
                 = TicketsOf(p, r)
           /\ \A i \in 1 .. Len(got) :
                 /\ got[i].player = p
                 /\ got[i].roundNumber \in Rounds
                 /\ got[i].id < Len(roomTicketsByRound[r][got[i].roundNumber])
                 /\ got[i] = roomTicketsByRound[r][got[i].roundNumber][got[i].id + 1]

\* C37: with emergencyWithdrawTokens never called, the contract's token balance
\* is at least collectedFees plus the prizePools of the rooms whose current round
\* has had no claim paid.
C37_BalanceCoversFeesAndPools ==
    balanceOf[Contract] >=
        collectedFees
          + SumSeq([i \in 1 .. MaxRooms |->
                      IF /\ i - 1 \in CreatedRooms
                         /\ \A t \in 0 .. MaxTickets :
                               PaidCount(i - 1, rooms[i - 1].roundNumber, t) = 0
                      THEN rooms[i - 1].prizePool
                      ELSE 0])

\* C38: before revealTime + GRACE_PERIOD no step ends the claim window of a
\* revealed round: a winning ticket that is unclaimed is, after the step, either
\* claimed or still a ticket of the room's current, revealed round.
C38_ClaimWindowKept ==
    [][\A r \in CreatedRooms :
         (rooms[r].revealed /\ now < rooms[r].revealTime + GRACE_PERIOD) =>
            \A t \in WinFlagged(r) :
               ~IsClaimed(r, rooms[r].roundNumber, t) =>
                  \/ IsClaimed(r, rooms[r].roundNumber, t)'
                  \/ /\ rooms'[r].roundNumber = rooms[r].roundNumber
                     /\ rooms'[r].revealed
                     /\ rooms'[r].winningNumber = rooms[r].winningNumber]_vars

\* C39: while the contract is paused, a step that leaves it paused changes no
\* room's state or prizePool, no ticket, no claim record, not collectedFees and
\* not the contract's token balance.
C39_PausedChangesNothing ==
    [][(paused /\ paused') =>
          /\ \A r \in RoomIds :
                /\ rooms'[r].state = rooms[r].state
                /\ rooms'[r].prizePool = rooms[r].prizePool
          /\ UNCHANGED << roomTicketsByRound, ticketClaimed, collectedFees >>
          /\ balanceOf'[Contract] = balanceOf[Contract]]_vars

=============================================================================
